---------------------------- MODULE Spec2Model ----------------------------
(*
  A model of f24_lab1/main.py: the restaurant review pipeline.

    fetch_restaurant_data     the corpus lookup (stepwise, one action per
                              iteration of the loop over the file)
    calculate_overall_score   the score aggregation (fixed-point intervals)
    main                      the three sequential chats

  Each has its own specification: SpecLookup, SpecScore, SpecMain.

  Strings are sequences of one-character strings, so that strip, split,
  lower and the substring test are computed character by character.
*)
EXTENDS Integers, Sequences, FiniteSets, TLC

VARIABLES
    \* ---- fetch_restaurant_data ----
    corpus,              \* the lines of restaurant-data.txt (without "\n")
    pc,                  \* "idle" | "open" | "scan" | "return" | "done"
    restaurant_name,     \* the argument of the call in progress / last call
    lineNo,              \* number of lines the for loop has consumed
    parts,               \* local `parts` of the last iteration
    restaurant_reviews,  \* local dict `restaurant_reviews`
    printed,             \* TRUE when the except branch printed its message
    returned,            \* value returned by the last completed call
    firstResult,         \* history: per query, result of its first clean call
    repeated,            \* history: queries with more than one clean call
    \* ---- calculate_overall_score ----
    score_name,          \* argument restaurant_name
    food_scores,         \* argument food_scores
    customer_service_scores,  \* argument customer_service_scores
    scorePc,             \* "call" | "done"
    raised,              \* the exception that left the call, or NoError
    result,              \* the returned dict, values in thousandths
    \* ---- main ----
    mainPc,              \* "idle" | "chats" | "done"
    chatNo,              \* number of chats of the queue begun so far
    active,              \* TRUE while a chat is running
    turns,               \* messages exchanged in the running chat
    pending,             \* the tool call awaiting execution, or NoCall
    stageLog,            \* history: the chats begun and ended, in order
    execLog              \* history: the calls asked for, run or not found

lookupVars == <<corpus, pc, restaurant_name, lineNo, parts,
                restaurant_reviews, printed, returned, firstResult, repeated>>

scoreVars == <<score_name, food_scores, customer_service_scores, scorePc,
               raised, result>>

mainVars == <<mainPc, chatNo, active, turns, pending, stageLog, execLog>>

vars == <<lookupVars, scoreVars, mainVars>>

-----------------------------------------------------------------------------
(* Bounds *)

MaxLines == 2

\* Longest score list passed to calculate_overall_score.
MaxScores == 2

\* Most messages exchanged in one chat.
MaxTurns == 2

-----------------------------------------------------------------------------
(* Characters and strings *)

\* No value: the argument before any call, an absent history entry.
None == <<>>

\* str.lower() on one character; "S" and "B" are the upper-case letters of
\* the inputs tried.
LowerChar(c) ==
    IF c = "S" THEN "s"
    ELSE IF c = "B" THEN "b"
    ELSE c

\* str.lower()
Lower(s) == [i \in 1..Len(s) |-> LowerChar(s[i])]

\* Whitespace as str.strip() sees it (the line's "\n" is implicit in the
\* division of the file into lines and is stripped with the rest).
IsSpace(c) == c = " "

RECURSIVE LStrip(_)
LStrip(s) ==
    IF s # <<>> /\ IsSpace(Head(s)) THEN LStrip(Tail(s)) ELSE s

RECURSIVE RStrip(_)
RStrip(s) ==
    IF s # <<>> /\ IsSpace(s[Len(s)])
    THEN RStrip(SubSeq(s, 1, Len(s) - 1))
    ELSE s

\* str.strip()
Strip(s) == RStrip(LStrip(s))

\* str.find('. ', i): lowest index >= i at which ". " starts, 0 when none.
RECURSIVE FindSep(_, _)
FindSep(s, i) ==
    IF i + 1 > Len(s) THEN 0
    ELSE IF s[i] = "." /\ s[i + 1] = " " THEN i
    ELSE FindSep(s, i + 1)

\* A mutant of the split: the last occurrence (rsplit) instead of the first.
RECURSIVE FindSepLast(_, _)
FindSepLast(s, i) ==
    IF i < 1 THEN 0
    ELSE IF i + 1 <= Len(s) /\ s[i] = "." /\ s[i + 1] = " " THEN i
    ELSE FindSepLast(s, i - 1)

SplitLast(s) ==
    LET i == FindSepLast(s, Len(s) - 1)
    IN  IF i = 0 THEN <<s>>
        ELSE <<SubSeq(s, 1, i - 1), SubSeq(s, i + 2, Len(s))>>

\* s.split('. ', 1): at most one split, at the first occurrence.
SplitOnce(s) ==
    LET i == FindSep(s, 1)
    IN  IF i = 0 THEN <<s>>
        ELSE <<SubSeq(s, 1, i - 1), SubSeq(s, i + 2, Len(s))>>

\* line.strip().split('. ', 1)
ParseLine(line) == SplitOnce(Strip(line))

\* A mutant of the match: the comparison without lower-casing.
MatchesCaseSensitive(name, candidate) ==
    \E i \in 0..(Len(candidate) - Len(name)) :
        SubSeq(candidate, i + 1, i + Len(name)) = name

\* restaurant_name.lower() in current_restaurant.lower()
Matches(name, candidate) ==
    LET n == Lower(name)
        c == Lower(candidate)
    IN  \E i \in 0..(Len(c) - Len(n)) : SubSeq(c, i + 1, i + Len(n)) = n

-----------------------------------------------------------------------------
(* The inputs: corpus lines and queries *)

Lines ==
    { <<"S", ".", " ", "g">>,                    \* "S. g"
      <<"S", "b", ".", " ", "h">>,               \* "Sb. h"
      <<"S", ".", " ", "h", ".", " ", "g">>,     \* "S. h. g"
      <<"t", ".", " ", "g">>,                    \* "t. g"
      <<"S", "g">>,                              \* "Sg"     no delimiter
      <<" ", "S", ".", " ", "g", " ">>,          \* " S. g " padded
      <<"S", ".", " ">> }                        \* "S. "    empty review

Queries ==
    { <<"s">>, <<"S", "B">>, <<"b">> }

RECURSIVE SeqsUpTo(_, _)
SeqsUpTo(S, n) ==
    IF n = 0 THEN { <<>> }
    ELSE LET shorter == SeqsUpTo(S, n - 1)
         IN  shorter \cup { Append(s, x) : s \in shorter, x \in S }

Corpora == SeqsUpTo(Lines, MaxLines)

-----------------------------------------------------------------------------
(* fetch_restaurant_data *)

EmptyMap == <<>>

\* A mutant of line 11: the dict survives from the previous call.
StaleReviews == restaurant_reviews

\* restaurant_reviews = {}
NewReviews == EmptyMap

\* A mutant of lines 24-25: the key is created for every well-formed line,
\* matching or not.
AddReviewEagerKey(reviews, ps, name) ==
    LET current_restaurant == ps[1]
        withKey == IF current_restaurant \in DOMAIN reviews
                   THEN reviews
                   ELSE reviews @@ (current_restaurant :> <<>>)
    IN  IF Matches(name, current_restaurant)
        THEN [withKey EXCEPT ![current_restaurant] = Append(@, ps[2])]
        ELSE withKey

\* Lines 19-26, for a line that split in two.
AddReview(reviews, ps, name) ==
    LET current_restaurant == ps[1]
        review == ps[2]
    IN  IF Matches(name, current_restaurant)
        THEN LET withKey == IF current_restaurant \in DOMAIN reviews
                            THEN reviews
                            ELSE reviews @@ (current_restaurant :> <<>>)
             IN  [withKey EXCEPT ![current_restaurant] = Append(@, review)]
        ELSE reviews

LookupStart ==
    /\ corpus \in Corpora
    /\ pc = "idle"
    /\ restaurant_name = None
    /\ lineNo = 0
    /\ parts = <<>>
    /\ restaurant_reviews = EmptyMap
    /\ printed = FALSE
    /\ returned = EmptyMap
    /\ firstResult = [q \in Queries |-> None]
    /\ repeated = {}

\* Lines 8-11: entry, with the fresh dict.
Call(q) ==
    /\ pc \in {"idle", "done"}
    /\ pc' = "open"
    /\ restaurant_name' = q
    /\ restaurant_reviews' = NewReviews
    /\ lineNo' = 0
    /\ parts' = <<>>
    /\ printed' = FALSE
    /\ returned' = EmptyMap
    /\ UNCHANGED <<corpus, firstResult, repeated>>
    /\ UNCHANGED <<scoreVars, mainVars>>

\* Line 14: open() succeeds.
OpenOk ==
    /\ pc = "open"
    /\ pc' = "scan"
    /\ UNCHANGED <<corpus, restaurant_name, lineNo, parts, restaurant_reviews,
                   printed, returned, firstResult, repeated>>
    /\ UNCHANGED <<scoreVars, mainVars>>

\* Line 14 raises; lines 27-28 catch and print.
OpenFail ==
    /\ pc = "open"
    /\ pc' = "return"
    /\ printed' = TRUE
    /\ UNCHANGED <<corpus, restaurant_name, lineNo, parts, restaurant_reviews,
                   returned, firstResult, repeated>>
    /\ UNCHANGED <<scoreVars, mainVars>>

\* Lines 15-26: one iteration of the loop.
ScanLine ==
    /\ pc = "scan"
    /\ lineNo < Len(corpus)
    /\ LET ps == ParseLine(corpus[lineNo + 1])
       IN  /\ parts' = ps
           /\ restaurant_reviews' =
                 IF Len(ps) >= 2
                 THEN AddReview(restaurant_reviews, ps, restaurant_name)
                 ELSE restaurant_reviews
    /\ lineNo' = lineNo + 1
    /\ UNCHANGED <<corpus, pc, restaurant_name, printed, returned,
                   firstResult, repeated>>
    /\ UNCHANGED <<scoreVars, mainVars>>

\* Line 15 raises while reading the next line (an I/O or decoding error);
\* lines 27-28 catch and print. The dict keeps what the loop put in it.
ReadFail ==
    /\ pc = "scan"
    /\ pc' = "return"
    /\ printed' = TRUE
    /\ UNCHANGED <<corpus, restaurant_name, lineNo, parts, restaurant_reviews,
                   returned, firstResult, repeated>>
    /\ UNCHANGED <<scoreVars, mainVars>>

\* Line 15: the file is exhausted, the with block closes.
EndOfFile ==
    /\ pc = "scan"
    /\ lineNo = Len(corpus)
    /\ pc' = "return"
    /\ UNCHANGED <<corpus, restaurant_name, lineNo, parts, restaurant_reviews,
                   printed, returned, firstResult, repeated>>
    /\ UNCHANGED <<scoreVars, mainVars>>

\* Line 30.
Return ==
    /\ pc = "return"
    /\ pc' = "done"
    /\ returned' = restaurant_reviews
    /\ IF printed
       THEN UNCHANGED <<firstResult, repeated>>
       ELSE IF firstResult[restaurant_name] = None
            THEN /\ firstResult' =
                       [firstResult EXCEPT ![restaurant_name] = <<restaurant_reviews>>]
                 /\ UNCHANGED repeated
            ELSE /\ repeated' = repeated \cup {restaurant_name}
                 /\ UNCHANGED firstResult
    /\ UNCHANGED <<corpus, restaurant_name, lineNo, parts, restaurant_reviews,
                   printed>>
    /\ UNCHANGED <<scoreVars, mainVars>>

NextLookup ==
    \/ \E q \in Queries : Call(q)
    \/ OpenOk
    \/ OpenFail
    \/ ScanLine
    \/ ReadFail
    \/ EndOfFile
    \/ Return

-----------------------------------------------------------------------------
(* calculate_overall_score

   Floating point is modelled by intervals of fixed-point numbers with
   FixDigits decimal places: every real value the code approximates lies in
   the interval computed for it, and the intervals are wider than a double's
   rounding error by many orders of magnitude. Where the two ends of the
   total round to different thousandths, the result is either of them. *)

FixDigits == 6

\* sqrt(125): the radicand of the normalisation, and the factor 10.
NormRadicand == 125
OutOf == 10

\* The scores the prompts promise: 1 to 5.
MinScore == 1
MaxScore == 5

\* The elements tried: the promised range and one step outside it each way,
\* the negative one included.
Elems == (0 - 1)..(MaxScore + 1)

ScoreNames == { <<"S">>, <<"S", "b">> }

NoError == "NoError"

\* The largest r with r * r <= x.
RECURSIVE IntSqrtFrom(_, _)
IntSqrtFrom(x, r) ==
    IF (r + 1) * (r + 1) > x THEN r ELSE IntSqrtFrom(x, r + 1)

\* One more decimal digit of a square root: <<r, rem>> with rem = x - r*r
\* becomes <<10r + d, 100x - (10r + d)^2>> for the largest digit d.
RECURSIVE SqrtDigit(_, _, _)
SqrtDigit(r, rem, d) ==
    IF d < 9 /\ 20 * r * (d + 1) + (d + 1) * (d + 1) <= 100 * rem
    THEN SqrtDigit(r, rem, d + 1)
    ELSE <<10 * r + d, 100 * rem - (20 * r * d + d * d)>>

RECURSIVE SqrtDigits(_, _)
SqrtDigits(p, n) ==
    IF n = 0 THEN p ELSE SqrtDigits(SqrtDigit(p[1], p[2], 0), n - 1)

\* math.sqrt(x) for x >= 0, to FixDigits places: [lo, hi] around the root.
Sqrt(x) ==
    LET r0 == IntSqrtFrom(x, 0)
        p  == SqrtDigits(<<r0, x - r0 * r0>>, FixDigits)
    IN  [lo |-> p[1], hi |-> IF p[2] = 0 THEN p[1] ELSE p[1] + 1]

\* Long division: <<q, r>> with a = q * b + r becomes the quotient and
\* remainder of a * 10^n by b.
RECURSIVE DivDigits(_, _, _)
DivDigits(p, b, n) ==
    IF n = 0 THEN p
    ELSE DivDigits(<<10 * p[1] + (10 * p[2]) \div b, (10 * p[2]) % b>>, b, n - 1)

\* a / b for a >= 0, b > 0, to FixDigits places, rounded down and up.
DivDown(a, b) == DivDigits(<<a \div b, a % b>>, b, FixDigits)[1]

DivUp(a, b) ==
    LET p == DivDigits(<<a \div b, a % b>>, b, FixDigits)
    IN  IF p[2] = 0 THEN p[1] ELSE p[1] + 1

\* The square roots the loop can ask for, computed once.
MaxRadicand == (MaxScore + 1) * (MaxScore + 1) * (MaxScore + 1)

SqrtOf == [x \in 0..MaxRadicand |-> Sqrt(x)]

SqrtNorm == Sqrt(NormRadicand)

\* A mutant of the normalisation: the 1/N is left out.
DenominatorNoN(N) == SqrtNorm

\* N * math.sqrt(125)
Denominator(N) == [lo |-> N * SqrtNorm.lo, hi |-> N * SqrtNorm.hi]

\* math.sqrt(x) * (1 / (N * math.sqrt(125))) * 10
ScaledRoot(x, N) ==
    LET s == SqrtOf[x]
        d == Denominator(N)
    IN  [lo |-> DivDown(OutOf * s.lo, d.hi), hi |-> DivUp(OutOf * s.hi, d.lo)]

ScaledRootOf ==
    [N \in 1..(MaxScores + 1) |-> [x \in 0..MaxRadicand |-> ScaledRoot(x, N)]]

\* math.sqrt(food_score**2 * customer_service_score)
\*     * (1 / (N * math.sqrt(125))) * 10
Term(food_score, customer_service_score, N) ==
    ScaledRootOf[N][food_score * food_score * customer_service_score]

\* The first i (1-based) at which the loop body raises, 0 when none:
\* an index past the end of customer_service_scores, or a negative radicand.
RECURSIVE FirstRaise(_, _, _)
FirstRaise(fs, cs, i) ==
    IF i > Len(fs) THEN 0
    ELSE IF i > Len(cs) THEN i
    ELSE IF fs[i] * fs[i] * cs[i] < 0 THEN i
    ELSE FirstRaise(fs, cs, i + 1)

RaisedAt(fs, cs, i) ==
    IF i > Len(cs) THEN "IndexError" ELSE "ValueError"

\* Lines 42-47: total_score after the iterations i..N.
RECURSIVE TotalFrom(_, _, _)
TotalFrom(fs, cs, i) ==
    IF i > Len(fs) THEN [lo |-> 0, hi |-> 0]
    ELSE LET t    == Term(fs[i], cs[i], Len(fs))
             rest == TotalFrom(fs, cs, i + 1)
         IN  [lo |-> t.lo + rest.lo, hi |-> t.hi + rest.hi]

\* round(t, 3) of a value with FixDigits = 6 places, in thousandths.
RoundMilli(t) == (t + 500) \div 1000

\* A mutant of line 38: the length comparison is left out.
DegenerateNoLengthCheck(fs, cs) == Len(fs) = 0 \/ Len(cs) = 0

\* Line 38.
Degenerate(fs, cs) == Len(fs) = 0 \/ Len(cs) = 0 \/ Len(fs) # Len(cs)

ScoreIdle ==
    /\ score_name = None
    /\ food_scores = <<>>
    /\ customer_service_scores = <<>>
    /\ scorePc = "idle"
    /\ raised = NoError
    /\ result = EmptyMap

ScoreStart ==
    /\ score_name \in ScoreNames
    /\ food_scores \in SeqsUpTo(Elems, MaxScores)
    /\ customer_service_scores \in SeqsUpTo(Elems, MaxScores)
    /\ scorePc = "call"
    /\ raised = NoError
    /\ result = EmptyMap

\* Lines 38-39: the degenerate case.
ReturnZero ==
    /\ scorePc = "call"
    /\ Degenerate(food_scores, customer_service_scores)
    /\ result' = (score_name :> 0)
    /\ scorePc' = "done"
    /\ UNCHANGED <<score_name, food_scores, customer_service_scores, raised>>
    /\ UNCHANGED <<lookupVars, mainVars>>

\* Lines 41-47, when an iteration raises.
ScoreRaises ==
    /\ scorePc = "call"
    /\ ~Degenerate(food_scores, customer_service_scores)
    /\ FirstRaise(food_scores, customer_service_scores, 1) # 0
    /\ raised' = RaisedAt(food_scores, customer_service_scores,
                          FirstRaise(food_scores, customer_service_scores, 1))
    /\ scorePc' = "done"
    /\ UNCHANGED <<score_name, food_scores, customer_service_scores, result>>
    /\ UNCHANGED <<lookupVars, mainVars>>

\* Lines 41-50.
ReturnScore ==
    /\ scorePc = "call"
    /\ ~Degenerate(food_scores, customer_service_scores)
    /\ FirstRaise(food_scores, customer_service_scores, 1) = 0
    /\ LET total_score == TotalFrom(food_scores, customer_service_scores, 1)
       IN  \E v \in RoundMilli(total_score.lo)..RoundMilli(total_score.hi) :
               result' = (score_name :> v)
    /\ scorePc' = "done"
    /\ UNCHANGED <<score_name, food_scores, customer_service_scores, raised>>
    /\ UNCHANGED <<lookupVars, mainVars>>

NextScore ==
    \/ ReturnZero
    \/ ScoreRaises
    \/ ReturnScore

LookupIdle ==
    /\ corpus = <<>>
    /\ pc = "idle"
    /\ restaurant_name = None
    /\ lineNo = 0
    /\ parts = <<>>
    /\ restaurant_reviews = EmptyMap
    /\ printed = FALSE
    /\ returned = EmptyMap
    /\ firstResult = [q \in Queries |-> None]
    /\ repeated = {}

-----------------------------------------------------------------------------
(* main: the agents, their registered functions and the sequential chats.
   What the language model answers is not determined by the program: every
   reply and every tool call it may suggest is a choice. *)

Agents == { "entrypoint_agent", "data_fetch_agent",
            "review_analyzer_agent", "scoring_agent" }

\* The agent that initiates every chat.
Sender == "entrypoint_agent"

\* register_for_llm: the functions an agent's replies may ask to call.
LlmTools ==
    [a \in Agents |->
        IF a \in {"entrypoint_agent", "data_fetch_agent"}
        THEN {"fetch_restaurant_data"}
        ELSE IF a = "scoring_agent" THEN {"calculate_overall_score"}
        ELSE {}]

\* register_for_execution: the functions an agent can run when asked.
FunctionMap ==
    [a \in Agents |->
        IF a \in {"entrypoint_agent", "data_fetch_agent"}
        THEN {"fetch_restaurant_data"}
        ELSE IF a = "scoring_agent" THEN {"calculate_overall_score"}
        ELSE {}]

\* A mutant of the chat list: the second and third chats change places.
ChatQueueSwapped ==
    <<"data_fetch_agent", "scoring_agent", "review_analyzer_agent">>

\* The recipients of the chats passed to initiate_chats, in list order.
ChatQueue ==
    <<"data_fetch_agent", "review_analyzer_agent", "scoring_agent">>

NoCall == [fn |-> "none", by |-> "none", arg |-> <<>>]

Recipient == ChatQueue[chatNo]

\* The other party of the running chat.
Peer(a) == IF a = Sender THEN Recipient ELSE Sender

MainIdle ==
    /\ mainPc = "idle"
    /\ chatNo = 0
    /\ active = FALSE
    /\ turns = 0
    /\ pending = NoCall
    /\ stageLog = <<>>
    /\ execLog = {}

\* Lines 116-194 have run: the agents exist and the functions are registered.
MainStart ==
    /\ mainPc = "chats"
    /\ chatNo = 0
    /\ active = FALSE
    /\ turns = 0
    /\ pending = NoCall
    /\ stageLog = <<>>
    /\ execLog = {}

\* initiate_chats takes the next chat of the list and sends its message.
StartChat ==
    /\ mainPc = "chats"
    /\ ~active
    /\ chatNo < Len(ChatQueue)
    /\ chatNo' = chatNo + 1
    /\ active' = TRUE
    /\ turns' = 0
    /\ stageLog' = Append(stageLog, <<"begin", ChatQueue[chatNo + 1]>>)
    /\ UNCHANGED <<mainPc, pending, execLog>>
    /\ UNCHANGED <<lookupVars, scoreVars>>

\* One of the two agents answers in text.
Reply ==
    /\ active
    /\ pending = NoCall
    /\ turns < MaxTurns
    /\ turns' = turns + 1
    /\ UNCHANGED <<mainPc, chatNo, active, pending, stageLog, execLog>>
    /\ UNCHANGED <<lookupVars, scoreVars>>

\* One of the two agents answers with a call of a function registered with
\* it for the language model.
SuggestTool(a, f, x) ==
    /\ active
    /\ pending = NoCall
    /\ turns < MaxTurns
    /\ a \in {Sender, Recipient}
    /\ f \in LlmTools[a]
    /\ pending' = [fn |-> f, by |-> a, arg |-> x]
    /\ turns' = turns + 1
    /\ UNCHANGED <<mainPc, chatNo, active, stageLog, execLog>>
    /\ UNCHANGED <<lookupVars, scoreVars>>

\* The agent that received the call runs it: the function is registered
\* with it for execution.
ExecuteTool ==
    /\ active
    /\ pending # NoCall
    /\ pending.fn \in FunctionMap[Peer(pending.by)]
    /\ execLog' = execLog \cup
                     {[fn |-> pending.fn, arg |-> pending.arg, chat |-> Recipient,
                       ran |-> TRUE]}
    /\ pending' = NoCall
    /\ UNCHANGED <<mainPc, chatNo, active, turns, stageLog>>
    /\ UNCHANGED <<lookupVars, scoreVars>>

\* The agent that received the call has no such function: it answers with
\* an error message and nothing runs.
ToolNotFound ==
    /\ active
    /\ pending # NoCall
    /\ pending.fn \notin FunctionMap[Peer(pending.by)]
    /\ execLog' = execLog \cup
                     {[fn |-> pending.fn, arg |-> pending.arg, chat |-> Recipient,
                       ran |-> FALSE]}
    /\ pending' = NoCall
    /\ UNCHANGED <<mainPc, chatNo, active, turns, stageLog>>
    /\ UNCHANGED <<lookupVars, scoreVars>>

\* The chat ends and its summary is taken.
EndChat ==
    /\ active
    /\ pending = NoCall
    /\ active' = FALSE
    /\ stageLog' = Append(stageLog, <<"end", Recipient>>)
    /\ UNCHANGED <<mainPc, chatNo, turns, pending, execLog>>
    /\ UNCHANGED <<lookupVars, scoreVars>>

\* initiate_chats returns after the last chat of the list.
FinishChats ==
    /\ mainPc = "chats"
    /\ ~active
    /\ chatNo = Len(ChatQueue)
    /\ mainPc' = "done"
    /\ UNCHANGED <<chatNo, active, turns, pending, stageLog, execLog>>
    /\ UNCHANGED <<lookupVars, scoreVars>>

\* The arguments a suggested call can carry.
ToolArgs == Queries

NextMain ==
    \/ StartChat
    \/ Reply
    \/ \E a \in Agents, f \in {"fetch_restaurant_data", "calculate_overall_score"},
          x \in ToolArgs : SuggestTool(a, f, x)
    \/ ExecuteTool
    \/ ToolNotFound
    \/ EndChat
    \/ FinishChats

-----------------------------------------------------------------------------
(* Specifications *)

\* Calls of fetch_restaurant_data, one after another, on one corpus.
InitLookup == LookupStart /\ ScoreIdle /\ MainIdle

SpecLookup == InitLookup /\ [][NextLookup]_vars

\* One call of calculate_overall_score on each input.
InitScore == ScoreStart /\ LookupIdle /\ MainIdle

SpecScore == InitScore /\ [][NextScore]_vars

\* One run of main.
InitMain == MainStart /\ LookupIdle /\ ScoreIdle

SpecMain == InitMain /\ [][NextMain]_vars

-----------------------------------------------------------------------------
(* Properties of fetch_restaurant_data *)

\* A call has returned without the except branch having run.
CleanReturn == pc = "done" /\ ~printed

\* A call has returned after the except branch ran.
FailedReturn == pc = "done" /\ printed

\* q, lower-cased, occurs in k, lower-cased, at some offset.
SubstringIgnoringCase(q, k) ==
    \E off \in 0..(Len(k) - Len(q)) :
        \A j \in 1..Len(q) : LowerChar(q[j]) = LowerChar(k[off + j])

\* The (name, review) pairs of those of the first n corpus lines that split
\* in two, in line order.
EntriesRead(n) == SelectSeq([i \in 1..n |-> ParseLine(corpus[i])],
                            LAMBDA p : Len(p) = 2)

CorpusEntries == EntriesRead(Len(corpus))

\* The reviews of the entries named k among the first n lines, in line order.
ReviewsRead(k, n) ==
    LET mine == SelectSeq(EntriesRead(n), LAMBDA p : p[1] = k)
    IN  [i \in 1..Len(mine) |-> mine[i][2]]

ReviewsOf(k) == ReviewsRead(k, Len(corpus))

\* The names among the first n lines that contain q ignoring case.
MatchingKeysRead(q, n) ==
    { EntriesRead(n)[i][1] : i \in { j \in 1..Len(EntriesRead(n)) :
          SubstringIgnoringCase(q, EntriesRead(n)[j][1]) } }

MatchingKeys(q) == MatchingKeysRead(q, Len(corpus))

\* C1: a clean call returns exactly the corpus entries whose name contains
\* the query ignoring case: the keys are the matching names in the corpus's
\* casing, and each key holds the reviews of its lines, one per line, in
\* line order.
C1_LookupResult ==
    CleanReturn =>
        /\ DOMAIN returned = MatchingKeys(restaurant_name)
        /\ \A k \in DOMAIN returned :
              /\ Len(returned[k]) = Len(ReviewsOf(k))
              /\ \A i \in 1..Len(returned[k]) : returned[k][i] = ReviewsOf(k)[i]

\* C1 witness: the lower-case query "s" returned the two keys "S" and "Sb",
\* in the corpus's casing, from a corpus of two lines.
C1_Witness ==
    /\ CleanReturn
    /\ restaurant_name = <<"s">>
    /\ DOMAIN returned = { <<"S">>, <<"S", "b">> }

\* C2: a call in which the open or a read failed returns the empty mapping
\* (and has reported the failure).
C2_EmptyOnFailure ==
    FailedReturn => (returned = EmptyMap /\ printed)

\* C8: whatever calls came before, a call that read the whole corpus
\* returns what the first such call with the same query returned, and every
\* call, failed ones included, returns entries of the lines it read itself
\* for its own query and nothing else.
C8_Stateless ==
    /\ CleanReturn => firstResult[restaurant_name] = <<returned>>
    /\ pc = "done" =>
          /\ DOMAIN returned = MatchingKeysRead(restaurant_name, lineNo)
          /\ \A k \in DOMAIN returned :
                /\ Len(returned[k]) = Len(ReviewsRead(k, lineNo))
                /\ \A i \in 1..Len(returned[k]) :
                      returned[k][i] = ReviewsRead(k, lineNo)[i]

\* C8 witness: a query was repeated after a call with another query had
\* returned something else.
C8_Witness ==
    /\ CleanReturn
    /\ restaurant_name \in repeated
    /\ returned # EmptyMap
    /\ \E q \in Queries \ {restaurant_name} :
          /\ firstResult[q] # None
          /\ firstResult[q] # firstResult[restaurant_name]

\* ". " starts at index i of s.
SepAt(s, i) == i >= 1 /\ i + 1 <= Len(s) /\ s[i] = "." /\ s[i + 1] = " "

HasSep(s) == \E i \in 1..Len(s) : SepAt(s, i)

FirstSep(s) == CHOOSE i \in 1..Len(s) : SepAt(s, i) /\ \A j \in 1..(i - 1) : ~SepAt(s, j)

\* What the claim says `parts` is after a line whose text is s.
SplitAtFirst(s) ==
    IF HasSep(s)
    THEN <<SubSeq(s, 1, FirstSep(s) - 1), SubSeq(s, FirstSep(s) + 2, Len(s))>>
    ELSE <<s>>

\* The loop has processed at least one line of the current call.
Scanned == pc \in {"scan", "return"} /\ lineNo >= 1

\* C9 as stated: the raw corpus line is split at its first ". ".
C9_SplitsRawLine ==
    Scanned => parts = SplitAtFirst(corpus[lineNo])

\* C9 amended, the split: the line stripped of leading and trailing
\* whitespace is split at its first ". ".
C9_SplitState ==
    Scanned => parts = SplitAtFirst(Strip(corpus[lineNo]))

\* C9 amended, the skip: an iteration over a line that did not split leaves
\* the dict alone, reports nothing and stays in the loop.
C9_SkipStep ==
    (pc = "scan" /\ lineNo' = lineNo + 1 /\ Len(parts') < 2) =>
        /\ restaurant_reviews' = restaurant_reviews
        /\ pc' = "scan"
        /\ printed' = FALSE

\* C9 amended: every processed line, stripped, is split at its first ". "
\* only, and a line without one is skipped without failing or stopping.
C9_SplitFirstOnly == [](C9_SplitState) /\ [][C9_SkipStep]_vars

\* C9 witness: a line with two delimiters was split, after a line without
\* a delimiter had been skipped.
C9_Witness ==
    /\ pc = "scan"
    /\ lineNo = 2
    /\ ~HasSep(Strip(corpus[1]))
    /\ Len(parts) = 2
    /\ HasSep(parts[2])

RECURSIVE TotalReviews(_)
TotalReviews(m) ==
    IF DOMAIN m = {} THEN 0
    ELSE LET k == CHOOSE x \in DOMAIN m : TRUE
         IN  Len(m[k]) + TotalReviews([x \in DOMAIN m \ {k} |-> m[x]])

\* C10: during the scan and in the returned mapping every key holds at
\* least one review, the reviews number at most the lines read, and a clean
\* call whose query matches no corpus name returns the empty mapping.
C10_NonEmptyLists ==
    /\ \A k \in DOMAIN restaurant_reviews : Len(restaurant_reviews[k]) >= 1
    /\ TotalReviews(restaurant_reviews) <= lineNo
    /\ \A k \in DOMAIN returned : Len(returned[k]) >= 1
    /\ TotalReviews(returned) <= lineNo
    /\ (CleanReturn /\ MatchingKeys(restaurant_name) = {}) => returned = EmptyMap

\* C10 witness: mid-scan, a key exists and a well-formed line that does not
\* match the query has been passed over.
C10_Witness ==
    /\ pc = "scan"
    /\ lineNo = 2
    /\ Cardinality(DOMAIN restaurant_reviews) = 1
    /\ Len(CorpusEntries) >= 2
    /\ TotalReviews(restaurant_reviews) < lineNo

-----------------------------------------------------------------------------
(* Properties of calculate_overall_score *)

ScoreDone == scorePc = "done"

\* C3: with an empty list on either side, or lists of different lengths,
\* the call raises nothing and returns the one-key dict {name: 0.000},
\* whatever the elements are.
C3_DegenerateZero ==
    (/\ ScoreDone
     /\ \/ Len(food_scores) = 0
        \/ Len(customer_service_scores) = 0
        \/ Len(food_scores) # Len(customer_service_scores))
    => /\ raised = NoError
       /\ DOMAIN result = {score_name}
       /\ result[score_name] = 0

\* C3 witness: the lists [1, 2] and [1] have been scored.
C3_Witness ==
    /\ ScoreDone
    /\ food_scores = <<1, 2>>
    /\ customer_service_scores = <<1>>
    /\ result = (score_name :> 0)

InRange(s) == \A i \in 1..Len(s) : s[i] \in MinScore..MaxScore

AllAre(s, v) == \A i \in 1..Len(s) : s[i] = v

\* C4: for lists of one length N >= 1 with every element in 1..5 the
\* returned value lies in [0, 10], and it is 10.0 when every score is 5.
C4_ZeroToTen ==
    (/\ ScoreDone
     /\ Len(food_scores) >= 1
     /\ Len(food_scores) = Len(customer_service_scores)
     /\ InRange(food_scores)
     /\ InRange(customer_service_scores))
    => /\ raised = NoError
       /\ DOMAIN result = {score_name}
       /\ result[score_name] \in 0..(OutOf * 1000)
       /\ (AllAre(food_scores, MaxScore) /\ AllAre(customer_service_scores, MaxScore))
             => result[score_name] = OutOf * 1000

\* C4 witness: two reviews, every score 5, scored 10.0.
C4_Witness ==
    /\ ScoreDone
    /\ food_scores = <<5, 5>>
    /\ customer_service_scores = <<5, 5>>
    /\ result = (score_name :> 10000)

-----------------------------------------------------------------------------
(* Properties of main *)

\* The stage a chat stands for.
StageOf(agent) ==
    IF agent = "data_fetch_agent" THEN "lookup"
    ELSE IF agent = "review_analyzer_agent" THEN "classification"
    ELSE IF agent = "scoring_agent" THEN "aggregation"
    ELSE "none"

\* The function of a stage.
StageOfFunction(f) ==
    IF f = "fetch_restaurant_data" THEN "lookup"
    ELSE IF f = "calculate_overall_score" THEN "aggregation"
    ELSE "none"

StageOrder ==
    << <<"begin", "lookup">>, <<"end", "lookup">>,
       <<"begin", "classification">>, <<"end", "classification">>,
       <<"begin", "aggregation">>, <<"end", "aggregation">> >>

\* C7: the stages begin and end in the order lookup, classification,
\* aggregation, each ended before the next begins and none begun twice, and
\* a registered function runs only during the chat of its own stage.
C7_StageOrder ==
    /\ Len(stageLog) <= Len(StageOrder)
    /\ \A i \in 1..Len(stageLog) :
          <<stageLog[i][1], StageOf(stageLog[i][2])>> = StageOrder[i]
    /\ \A e \in execLog : e.ran => StageOfFunction(e.fn) = StageOf(e.chat)

\* C7 witness: all three chats have ended and the lookup function has run.
C7_Witness ==
    /\ mainPc = "done"
    /\ Len(stageLog) = 6
    /\ \E e \in execLog : e.ran
    /\ \E e \in execLog : ~e.ran

=============================================================================
